---- MODULE Spec2Model ----
(***************************************************************************)
(* Google Ads upload handlers (conversion adjustments, offline user data   *)
(* jobs) and the Cloud Functions REST wrapper, as state machines.          *)
(*                                                                         *)
(* One behaviour is one invocation: Init draws the handler (pattern), its  *)
(* inputs and the config; the actions are the steps of the async function  *)
(* between its suspension points, the outcome of every remote call being   *)
(* chosen by the environment.                                              *)
(***************************************************************************)
EXTENDS Integers, Sequences, FiniteSets, TLC

\* ------------------------------------------------------------------ bounds
MaxRecords == 3
MaxThreads == 2
MaxQps == 2
MaxConfigRecords == 2

\* ------------------------------------------------------- program constants
RECORDS_PER_REQUEST == 100000
NUMBER_OF_THREADS == 1
QUERIES_PER_SECOND == 1

\* A config field that is absent (undefined in the source).
Unset == 0

VARIABLES
  pattern,          \* "adjustment" | "job" | "functions": the handler invoked
  message,          \* job: the inbound Pub/Sub message
  stored,           \* job: the lines of the Cloud Storage object the message names
  config,           \* the config argument
  pc,               \* position in the async function
  records,          \* the `records` local / argument
  hasRecords,       \* whether `records` has been assigned
  jobResourceName,  \* job: the job handle, Unset until createOfflineUserDataJob returns
  batches,          \* managed send: the partitioned batches
  next,             \* managed send: index of the next batch to admit
  inflight,         \* managed send: indices of the batch sends in flight
  outcomes,         \* managed send: per batch "pending" | "ok" | "failed"
  windowStarts,     \* managed send: batch starts in the current one-second window
  sendResult,       \* the BatchResult the managed send resolved with
  status,           \* the promise sendDataInternal returned: pending/resolved/rejected
  returned,         \* the BatchResult it resolved with
  calls,            \* trace of the remote calls, in order
  thrown,           \* the steps that threw in this invocation
  cf                \* Cloud Functions: the last createOrUpdate call

vars == <<pattern, message, stored, config, pc, records, hasRecords,
          jobResourceName, batches, next, inflight, outcomes, windowStarts,
          sendResult, status, returned, calls, thrown, cf>>

uploadVars == <<message, stored, config, pc, records, hasRecords,
                jobResourceName, batches, next, inflight, outcomes,
                windowStarts, sendResult, status, returned, calls, thrown>>

\* ------------------------------------------------------------------ values
\* n records, one per line
Lines(n) == [i \in 1..n |-> i]

\* The text of a message that is a JSON document is a single line.
JsonLine == 0

Error(kind, batch) == [kind |-> kind, batch |-> batch]
Call(op, batch, data) == [op |-> op, batch |-> batch, data |-> data]

NoResult == [result |-> FALSE, errors |-> <<>>]

CUSTOMER_MATCH == <<"CUSTOMER_MATCH">>
JobTypes == { <<"CUSTOMER_MATCH", "USER_LIST">>,
              <<"STORE_SALES", "UPLOAD_FIRST_PARTY">> }

\* String.prototype.startsWith over token sequences
startsWith(s, p) == Len(s) >= Len(p) /\ SubSeq(s, 1, Len(p)) = p

\* json: "invalid" (JSON.parse throws), "null" (parses to null, destructuring
\* throws) or "object"; bucket/file: whether the object carries the field.
InlineMessages ==
  { [json |-> "invalid", bucket |-> FALSE, file |-> FALSE, lines |-> Lines(n)] :
      n \in 0..MaxRecords }
JsonMessages ==
  { [json |-> "null", bucket |-> FALSE, file |-> FALSE, lines |-> <<JsonLine>>] }
  \cup { [json |-> "object", bucket |-> b, file |-> FALSE, lines |-> <<JsonLine>>] :
           b \in BOOLEAN }
  \cup { [json |-> "object", bucket |-> TRUE, file |-> TRUE, lines |-> <<JsonLine>>] }

\* --------------------------------------------------------- pure functions
getProperValue(value, defaultValue, capped) ==
  IF value <= 0 \/ (capped /\ value > defaultValue) THEN defaultValue ELSE value

\* Mutant: the configured thread count is honoured.
getSpeedOptionsThreads(c) ==
  [ recordsPerRequest |->
      getProperValue(c.recordsPerRequest, RECORDS_PER_REQUEST, TRUE),
    numberOfThreads |-> getProperValue(c.numberOfThreads, NUMBER_OF_THREADS, FALSE),
    qps |-> getProperValue(c.qps, QUERIES_PER_SECOND, FALSE) ]

\* Mutant: the configured batch size is taken as it is.
getSpeedOptionsRaw(c) ==
  [ recordsPerRequest |-> c.recordsPerRequest,
    numberOfThreads |-> NUMBER_OF_THREADS,
    qps |-> getProperValue(c.qps, QUERIES_PER_SECOND, FALSE) ]

getSpeedOptions(c) ==
  [ recordsPerRequest |->
      getProperValue(c.recordsPerRequest, RECORDS_PER_REQUEST, TRUE),
    numberOfThreads |-> NUMBER_OF_THREADS,
    qps |-> getProperValue(c.qps, QUERIES_PER_SECOND, FALSE) ]

\* The inherited getSpeedOptions of the conversion upload: the UploadConfig's
\* own (positive) values.
getSpeedOptionsBase(c) ==
  [ recordsPerRequest |-> c.recordsPerRequest,
    numberOfThreads |-> c.numberOfThreads,
    qps |-> c.qps ]

Speed ==
  IF pattern = "job" THEN getSpeedOptions(config) ELSE getSpeedOptionsBase(config)

RECURSIVE Partition(_, _)
Partition(s, r) ==
  IF Len(s) = 0 THEN <<>>
  ELSE IF Len(s) <= r THEN <<s>>
  ELSE <<SubSeq(s, 1, r)>> \o Partition(SubSeq(s, r + 1, Len(s)), r)

RECURSIVE ErrorsFrom(_, _)
ErrorsFrom(o, i) ==
  IF i > Len(o) THEN <<>>
  ELSE (IF o[i] = "failed" THEN <<Error("send", i)>> ELSE <<>>)
         \o ErrorsFrom(o, i + 1)

Aggregated(o) ==
  [ result |-> \A i \in 1..Len(o) : o[i] = "ok",
    errors |-> ErrorsFrom(o, 1) ]

getResultFromError(step) ==
  [ result |-> FALSE, errors |-> <<Error(step, 0)>> ]

\* Mutant: equality instead of startsWith.
needsListExact(type) == type = CUSTOMER_MATCH

needsList(type) == startsWith(type, CUSTOMER_MATCH)

\* Mutant: a document without a file falls back to inline data.
sourceBranchNoFile(m) ==
  IF m.json = "invalid" \/ m.json = "null" THEN "catch"
  ELSE IF m.file THEN "load"
  ELSE "catch"

\* Outcome of `const { bucket, file } = JSON.parse(message); if (file) ...`
sourceBranch(m) ==
  IF m.json = "invalid" \/ m.json = "null" THEN "catch"
  ELSE IF m.file THEN "load"
  ELSE "return"

\* ------------------------------------------------------------------- Init
JobConfigs ==
  [ type : JobTypes,
    list_id : {Unset},
    recordsPerRequest : (0..MaxConfigRecords) \cup {RECORDS_PER_REQUEST + 1},
    numberOfThreads : {Unset, MaxThreads},
    qps : 0..MaxQps ]

AdjustmentConfigs ==
  [ type : {<<>>},
    list_id : {Unset},
    recordsPerRequest : 1..MaxConfigRecords,
    numberOfThreads : 1..MaxThreads,
    qps : 1..MaxQps ]

NoMessage == [json |-> "invalid", bucket |-> FALSE, file |-> FALSE, lines |-> <<>>]
NoConfig == [type |-> <<>>, list_id |-> Unset, recordsPerRequest |-> 1,
             numberOfThreads |-> 1, qps |-> 1]
NoCall == [state |-> "idle", functionsName |-> "",
           response |-> [name |-> FALSE, hasError |-> FALSE, code |-> 0],
           payloadName |-> <<>>, requests |-> <<>>]

InitCommon ==
  /\ pc = "start"
  /\ jobResourceName = Unset
  /\ batches = <<>>
  /\ next = 1
  /\ inflight = {}
  /\ outcomes = <<>>
  /\ windowStarts = 0
  /\ sendResult = NoResult
  /\ status = "pending"
  /\ returned = NoResult
  /\ calls = <<>>
  /\ thrown = {}
  /\ cf = NoCall

InitJob ==
  /\ pattern = "job"
  /\ \/ message \in InlineMessages /\ stored = <<>>
     \/ message \in JsonMessages /\ stored \in { Lines(n) : n \in 0..MaxRecords }
                                 /\ (message.file \/ stored = <<>>)
  /\ config \in JobConfigs
  /\ records = <<>>
  /\ hasRecords = FALSE

InitAdjustment ==
  /\ pattern = "adjustment"
  /\ message = NoMessage
  /\ stored = <<>>
  /\ config \in AdjustmentConfigs
  /\ records \in { Lines(n) : n \in 0..MaxRecords }
  /\ hasRecords = TRUE

InitFunctions ==
  /\ pattern = "functions"
  /\ message = NoMessage
  /\ stored = <<>>
  /\ config = NoConfig
  /\ records = <<>>
  /\ hasRecords = FALSE

Init == InitCommon /\ (InitJob \/ InitAdjustment \/ InitFunctions)

\* ------------------------------------------------------ shared sub-steps
\* `return this.getResultFromError(googleAds, error)` in the catch block
ReturnFromError(step) ==
  /\ thrown' = thrown \cup {step}
  /\ status' = "resolved"
  /\ returned' = getResultFromError(step)
  /\ pc' = "done"

\* managedSend(configedUpload, records, messageId) up to its first suspension
StartManagedSend ==
  /\ batches' = Partition(records, Speed.recordsPerRequest)
  /\ outcomes' = [i \in 1..Len(batches') |-> "pending"]
  /\ next' = 1
  /\ inflight' = {}
  /\ windowStarts' = 0
  /\ pc' = "managedSend"

afterSource == IF needsList(config.type) THEN "getOrCreateUserList"
               ELSE "createOfflineUserDataJob"

\* ------------------------------------------ conversion adjustment upload
AdjustmentStart ==
  /\ pattern = "adjustment" /\ pc = "start"
  /\ \/ /\ StartManagedSend
        /\ UNCHANGED <<status, returned, thrown>>
     \/ /\ thrown' = thrown \cup {"build"}
        /\ status' = "rejected"
        /\ pc' = "done"
        /\ UNCHANGED <<returned, batches, outcomes, next, inflight, windowStarts>>
  /\ UNCHANGED <<pattern, message, stored, config, records, hasRecords,
                 jobResourceName, sendResult, calls, cf>>

\* Mutant: the managed send's errors are not passed on.
AdjustmentReturnDrop ==
  /\ pattern = "adjustment" /\ pc = "afterSend"
  /\ status' = "resolved"
  /\ returned' = [sendResult EXCEPT !.errors = <<>>]
  /\ pc' = "done"
  /\ UNCHANGED <<pattern, message, stored, config, records, hasRecords,
                 jobResourceName, batches, next, inflight, outcomes,
                 windowStarts, sendResult, calls, thrown, cf>>

AdjustmentReturn ==
  /\ pattern = "adjustment" /\ pc = "afterSend"
  /\ status' = "resolved"
  /\ returned' = sendResult
  /\ pc' = "done"
  /\ UNCHANGED <<pattern, message, stored, config, records, hasRecords,
                 jobResourceName, batches, next, inflight, outcomes,
                 windowStarts, sendResult, calls, thrown, cf>>

\* --------------------------------------------- offline user data job upload
ParseMessage ==
  /\ pattern = "job" /\ pc = "start"
  /\ \/ /\ sourceBranch(message) = "catch"
        /\ records' = message.lines
        /\ hasRecords' = TRUE
        /\ thrown' = thrown \cup {"parse"}
        /\ pc' = afterSource
        /\ UNCHANGED <<status, returned>>
     \/ /\ sourceBranch(message) = "load"
        /\ pc' = "loadContent"
        /\ UNCHANGED <<records, hasRecords, thrown, status, returned>>
     \/ /\ sourceBranch(message) = "return"
        /\ status' = "resolved"
        /\ returned' = [result |-> FALSE, errors |-> <<Error("Could find GCS", 0)>>]
        /\ pc' = "done"
        /\ UNCHANGED <<records, hasRecords, thrown>>
  /\ UNCHANGED <<pattern, message, stored, config, jobResourceName, batches,
                 next, inflight, outcomes, windowStarts, sendResult, calls, cf>>

LoadContent ==
  /\ pattern = "job" /\ pc = "loadContent"
  /\ calls' = Append(calls, Call("loadContent", 0, <<>>))
  /\ \/ /\ records' = stored
        /\ UNCHANGED thrown
     \/ /\ records' = message.lines
        /\ thrown' = thrown \cup {"loadContent"}
  /\ hasRecords' = TRUE
  /\ pc' = afterSource
  /\ UNCHANGED <<pattern, message, stored, config, jobResourceName, batches,
                 next, inflight, outcomes, windowStarts, sendResult, status,
                 returned, cf>>

\* Mutant: a failed list creation is swallowed and the job is created anyway.
GetOrCreateUserListSwallow ==
  /\ pattern = "job" /\ pc = "getOrCreateUserList"
  /\ calls' = Append(calls, Call("getOrCreateUserList", 0, <<>>))
  /\ \/ /\ config' = [config EXCEPT !.list_id = 1]
        /\ UNCHANGED thrown
     \/ /\ thrown' = thrown \cup {"getOrCreateUserList"}
        /\ UNCHANGED config
  /\ pc' = "createOfflineUserDataJob"
  /\ UNCHANGED <<pattern, message, stored, records, hasRecords,
                 jobResourceName, batches, next, inflight, outcomes,
                 windowStarts, sendResult, status, returned, cf>>

GetOrCreateUserList ==
  /\ pattern = "job" /\ pc = "getOrCreateUserList"
  /\ calls' = Append(calls, Call("getOrCreateUserList", 0, <<>>))
  /\ \/ /\ config' = [config EXCEPT !.list_id = 1]
        /\ pc' = "createOfflineUserDataJob"
        /\ UNCHANGED <<thrown, status, returned>>
     \/ /\ ReturnFromError("getOrCreateUserList")
        /\ UNCHANGED config
  /\ UNCHANGED <<pattern, message, stored, records, hasRecords,
                 jobResourceName, batches, next, inflight, outcomes,
                 windowStarts, sendResult, cf>>

CreateOfflineUserDataJob ==
  /\ pattern = "job" /\ pc = "createOfflineUserDataJob"
  /\ calls' = Append(calls, Call("createOfflineUserDataJob", 0, <<>>))
  /\ \/ /\ jobResourceName' = 1
        /\ StartManagedSend
        /\ UNCHANGED <<thrown, status, returned>>
     \/ /\ jobResourceName' = 1
        /\ ReturnFromError("build")
        /\ UNCHANGED <<batches, outcomes, next, inflight, windowStarts>>
     \/ /\ ReturnFromError("createOfflineUserDataJob")
        /\ UNCHANGED <<jobResourceName, batches, outcomes, next, inflight,
                       windowStarts>>
  /\ UNCHANGED <<pattern, message, stored, config, records, hasRecords,
                 sendResult, cf>>

\* Mutant: the run-job outcome is returned in place of the send result.
RunOfflineUserDataJobDrop ==
  /\ pattern = "job" /\ pc = "afterSend"
  /\ calls' = Append(calls, Call("runOfflineUserDataJob", 0, <<>>))
  /\ \/ /\ status' = "resolved"
        /\ returned' = [result |-> TRUE, errors |-> <<>>]
        /\ pc' = "done"
        /\ UNCHANGED thrown
     \/ ReturnFromError("runOfflineUserDataJob")
  /\ UNCHANGED <<pattern, message, stored, config, records, hasRecords,
                 jobResourceName, batches, next, inflight, outcomes,
                 windowStarts, sendResult, cf>>

RunOfflineUserDataJob ==
  /\ pattern = "job" /\ pc = "afterSend"
  /\ calls' = Append(calls, Call("runOfflineUserDataJob", 0, <<>>))
  /\ \/ /\ status' = "resolved"
        /\ returned' = sendResult
        /\ pc' = "done"
        /\ UNCHANGED thrown
     \/ ReturnFromError("runOfflineUserDataJob")
  /\ UNCHANGED <<pattern, message, stored, config, records, hasRecords,
                 jobResourceName, batches, next, inflight, outcomes,
                 windowStarts, sendResult, cf>>

\* ------------------------------------------------------------ managed send
Admit ==
  /\ pc = "managedSend"
  /\ next <= Len(batches)
  /\ Cardinality(inflight) < Speed.numberOfThreads
  /\ windowStarts < Speed.qps
  /\ inflight' = inflight \cup {next}
  /\ next' = next + 1
  /\ windowStarts' = windowStarts + 1
  /\ calls' = Append(calls, Call("send", next, batches[next]))
  /\ UNCHANGED <<pattern, message, stored, config, pc, records, hasRecords,
                 jobResourceName, batches, outcomes, sendResult, status,
                 returned, thrown, cf>>

Complete ==
  /\ pc = "managedSend"
  /\ \E i \in inflight :
       /\ inflight' = inflight \ {i}
       /\ \/ outcomes' = [outcomes EXCEPT ![i] = "ok"]
          \/ outcomes' = [outcomes EXCEPT ![i] = "failed"]
  /\ UNCHANGED <<pattern, message, stored, config, pc, records, hasRecords,
                 jobResourceName, batches, next, windowStarts, sendResult,
                 status, returned, calls, thrown, cf>>

Tick ==
  /\ pc = "managedSend"
  /\ windowStarts > 0
  /\ windowStarts' = 0
  /\ UNCHANGED <<pattern, message, stored, config, pc, records, hasRecords,
                 jobResourceName, batches, next, inflight, outcomes,
                 sendResult, status, returned, calls, thrown, cf>>

Aggregate ==
  /\ pc = "managedSend"
  /\ next > Len(batches)
  /\ inflight = {}
  /\ sendResult' = Aggregated(outcomes)
  /\ pc' = "afterSend"
  /\ UNCHANGED <<pattern, message, stored, config, records, hasRecords,
                 jobResourceName, batches, next, inflight, outcomes,
                 windowStarts, status, returned, calls, thrown, cf>>

\* ---------------------------------------------------------- Cloud Functions
FunctionNames == {"main", "worker"}
ProjectId == "project"
LocationId == "region"
\* getFunction's response body: the function resource (it carries a name), an
\* error object with a code, or a body with neither
NOT_FOUND == 404
LookupResponses ==
  { [name |-> TRUE, hasError |-> FALSE, code |-> 0],
    [name |-> FALSE, hasError |-> FALSE, code |-> 0] }
  \cup { [name |-> FALSE, hasError |-> TRUE, code |-> c] : c \in {NOT_FOUND, 403, 500} }

functionsUrl == <<"projects", ProjectId, "locations", LocationId, "functions">>
functionUrl(name) == Append(functionsUrl, name)

\* Mutant: every error response is read as "the function does not exist".
existAnyError(response) ==
  IF response.name THEN "true"
  ELSE IF ~response.hasError THEN "throw"
  ELSE "false"

\* exist(): "true", "false" or "throw" (the Error of line 66, or the TypeError
\* of reading response.error.code when the body has no error)
exist(response) ==
  IF response.name THEN "true"
  ELSE IF ~response.hasError THEN "throw"
  ELSE IF response.code = NOT_FOUND THEN "false"
  ELSE "throw"

Request(method, url, payloadName) ==
  [method |-> method, url |-> url, payloadName |-> payloadName]

CreateOrUpdate ==
  /\ pattern = "functions"
  /\ \E name \in FunctionNames, response \in LookupResponses,
        payloadName \in {<<>>, functionUrl("other")}, mutateOk \in BOOLEAN :
       LET lookup == Request("GET", functionUrl(name), <<>>)
           mutation ==
             IF exist(response) = "true"
               THEN Request("PATCH", functionUrl(name), payloadName)
               ELSE Request("POST", functionsUrl, functionUrl(name))
       IN cf' = [ functionsName |-> name,
                  response |-> response,
                  payloadName |-> payloadName,
                  requests |-> IF exist(response) = "throw" THEN <<lookup>>
                               ELSE <<lookup, mutation>>,
                  state |-> IF exist(response) = "throw" \/ ~mutateOk
                            THEN "threw" ELSE "returned" ]
  /\ UNCHANGED <<pattern>>
  /\ UNCHANGED uploadVars

\* ------------------------------------------------------------------- Next
Next ==
  \/ AdjustmentStart
  \/ AdjustmentReturn
  \/ ParseMessage
  \/ LoadContent
  \/ GetOrCreateUserList
  \/ CreateOfflineUserDataJob
  \/ RunOfflineUserDataJob
  \/ Admit
  \/ Complete
  \/ Tick
  \/ Aggregate
  \/ CreateOrUpdate

Spec == Init /\ [][Next]_vars

\* =================================================================== claims
Positions(op) == { i \in 1..Len(calls) : calls[i].op = op }
Count(op) == Cardinality(Positions(op))
Failed == { i \in 1..Len(outcomes) : outcomes[i] = "failed" }
Range(q) == { q[i] : i \in 1..Len(q) }
IsSend(c) == c.op = "send"
NotLoad(c) == c.op # "loadContent"
SendCalls == SelectSeq(calls, IsSend)
AllSends == [i \in 1..Len(batches) |-> Call("send", i, batches[i])]
AllTerminal == \A b \in 1..Len(outcomes) : outcomes[b] # "pending"
WantsList == pattern = "job" /\ Head(config.type) = "CUSTOMER_MATCH"

RECURSIVE Flatten(_)
Flatten(b) == IF b = <<>> THEN <<>> ELSE Head(b) \o Flatten(Tail(b))

\* C1: job-based upload of a job type that needs a list: the list is created
\* at most once and before the job, no batch send starts before the job was
\* created, run-job is issued at most once and only when every batch has a
\* terminal outcome; with the prerequisites succeeding the complete trace is
\* createList, createJob, send 1..n, runJob.
C1_CallOrder ==
  WantsList =>
    /\ Count("getOrCreateUserList") <= 1
    /\ Count("createOfflineUserDataJob") <= 1
    /\ Count("runOfflineUserDataJob") <= 1
    /\ \A i \in Positions("createOfflineUserDataJob") :
         \E j \in Positions("getOrCreateUserList") : j < i
    /\ \A i \in Positions("send") :
         /\ jobResourceName # Unset
         /\ \E j \in Positions("createOfflineUserDataJob") : j < i
    /\ \A i \in Positions("runOfflineUserDataJob") :
         /\ i = Len(calls)
         /\ inflight = {}
         /\ AllTerminal
         /\ SendCalls = AllSends
    /\ ( /\ pc = "done"
         /\ hasRecords
         /\ thrown \cap {"getOrCreateUserList", "createOfflineUserDataJob", "build"} = {} )
       => SelectSeq(calls, NotLoad) =
            << Call("getOrCreateUserList", 0, <<>>),
               Call("createOfflineUserDataJob", 0, <<>>) >>
            \o AllSends \o << Call("runOfflineUserDataJob", 0, <<>>) >>

C1_Witness ==
  /\ WantsList /\ pc = "done"
  /\ Len(batches) >= 2 /\ Cardinality(Failed) = 1
  /\ Count("runOfflineUserDataJob") = 1

\* C2 (as claimed): the promise sendDataInternal returns never rejects; every
\* finished invocation of either upload resolved with a BatchResult.
C2_NeverRejects ==
  pattern \in {"adjustment", "job"} =>
    /\ status # "rejected"
    /\ pc = "done" => status = "resolved"

\* C3 (as claimed): once fetching a referenced object failed, no job is
\* created, no batch is sent, the message text is not the record data, and the
\* invocation returns the failed BatchResult of the fetch error.
C3_FetchFailureReturned ==
  (pattern = "job" /\ "loadContent" \in thrown) =>
    /\ jobResourceName = Unset
    /\ Count("send") = 0
    /\ pc = "done" => returned = getResultFromError("loadContent")

\* C4: a JSON document without a file makes the job-based upload return at
\* once a failed BatchResult with exactly one message, with no remote call at
\* all and without the message becoming record data.
C4_NoFileFails ==
  (pattern = "job" /\ message.json = "object" /\ ~message.file /\ pc # "start") =>
    /\ pc = "done"
    /\ status = "resolved"
    /\ returned = [result |-> FALSE, errors |-> <<Error("Could find GCS", 0)>>]
    /\ calls = <<>>
    /\ ~hasRecords
    /\ batches = <<>>
    /\ jobResourceName = Unset

C4_Witness ==
  /\ pattern = "job" /\ message.json = "object" /\ message.bucket /\ ~message.file
  /\ pc = "done"

\* C5 (as claimed): after job creation, when a batch failed the returned
\* BatchResult is false and holds every failed batch's message, whatever the
\* run-job command did.
C5_Original ==
  (pattern = "job" /\ pc = "done" /\ jobResourceName # Unset /\ Failed # {}) =>
    /\ returned.result = FALSE
    /\ \A i \in Failed : Error("send", i) \in Range(returned.errors)

\* C5 (amended): after job creation, when a batch failed the returned
\* BatchResult is false; it holds the failed batches' messages in index order
\* when run-job succeeded, and only the run-job error when run-job threw.
C5_Amended ==
  (pattern = "job" /\ pc = "done" /\ jobResourceName # Unset /\ Failed # {}) =>
    /\ returned.result = FALSE
    /\ Count("runOfflineUserDataJob") = 1
    /\ IF "runOfflineUserDataJob" \in thrown
         THEN returned = getResultFromError("runOfflineUserDataJob")
         ELSE returned.errors = [k \in 1..Cardinality(Failed) |->
                Error("send", CHOOSE i \in Failed :
                        Cardinality({j \in Failed : j < i}) = k - 1)]

C5_Witness ==
  /\ pattern = "job" /\ pc = "done" /\ jobResourceName # Unset
  /\ Cardinality(Failed) = 2
  /\ "runOfflineUserDataJob" \notin thrown

\* C6: when list creation or job creation throws, the invocation returns a
\* failed BatchResult with one message, no batch send is started and no
\* run-job is issued; after a failed list creation no job creation is issued.
C6_PrerequisiteFailure ==
  pattern = "job" =>
    /\ "getOrCreateUserList" \in thrown =>
         /\ pc = "done" /\ status = "resolved"
         /\ returned = getResultFromError("getOrCreateUserList")
         /\ Count("createOfflineUserDataJob") = 0
         /\ Count("send") = 0
         /\ Count("runOfflineUserDataJob") = 0
    /\ "createOfflineUserDataJob" \in thrown =>
         /\ pc = "done" /\ status = "resolved"
         /\ returned = getResultFromError("createOfflineUserDataJob")
         /\ Count("send") = 0
         /\ Count("runOfflineUserDataJob") = 0

C6_Witness ==
  /\ pattern = "job" /\ "getOrCreateUserList" \in thrown
  /\ hasRecords /\ records # <<>>

\* C7: when the managed send has resolved, every batch was sent with its own
\* records and has a terminal outcome; with no failed batch the BatchResult is
\* {true, []}, with exactly batch i failed it is {false, [M_i]}; the conversion
\* adjustment upload returns that BatchResult; a running managed send always
\* has a step to take.
C7_PartialFailureIsolation ==
  /\ pc = "managedSend" => ENABLED (Admit \/ Complete \/ Tick \/ Aggregate)
  /\ LET finished == pc = "afterSend"
                     \/ (pattern = "adjustment" /\ pc = "done" /\ status = "resolved")
         result == IF pc = "afterSend" THEN sendResult ELSE returned
     IN finished =>
          /\ SendCalls = AllSends
          /\ Flatten(batches) = records
          /\ AllTerminal
          /\ Failed = {} => result = [result |-> TRUE, errors |-> <<>>]
          /\ \A i \in Failed :
               Failed = {i} => result = [result |-> FALSE, errors |-> <<Error("send", i)>>]

C7_Witness ==
  /\ pattern = "adjustment" /\ pc = "done" /\ status = "resolved"
  /\ Len(batches) >= 3 /\ Failed = {2}
  /\ config.numberOfThreads >= 2

\* C8: at most numberOfThreads batch sends are in flight; in the job-based
\* upload that is one whatever the config says, and batch i starts only when
\* every batch before it has a terminal outcome.
C8_ConcurrencyBound ==
  /\ pattern = "adjustment" => Cardinality(inflight) <= config.numberOfThreads
  /\ pattern = "job" =>
       /\ Cardinality(inflight) <= 1
       /\ \A i \in inflight : \A j \in 1..(i - 1) : outcomes[j] # "pending"
  /\ \A k \in 1..Len(SendCalls) : SendCalls[k].batch = k

C8_Witness ==
  /\ pattern = "job" /\ config.numberOfThreads >= 2
  /\ inflight = {2}

\* C9: the effective recordsPerRequest R is positive, and the batches built
\* from N records are ceil(N/R) non-empty batches of at most R records, all
\* but the last of exactly R, whose concatenation is the record sequence.
C9_Partition ==
  /\ pattern \in {"adjustment", "job"} => Speed.recordsPerRequest > 0
  /\ pc \in {"managedSend", "afterSend"} =>
       LET R == Speed.recordsPerRequest
           N == Len(records)
       IN /\ Len(batches) = (N + R - 1) \div R
          /\ \A i \in 1..Len(batches) : Len(batches[i]) \in 1..R
          /\ \A i \in 1..(Len(batches) - 1) : Len(batches[i]) = R
          /\ Flatten(batches) = records
          /\ N = 0 => batches = <<>>

C9_Witness ==
  /\ pc = "managedSend"
  /\ Len(records) = 3 /\ Speed.recordsPerRequest = 2 /\ Len(batches) = 2

\* C10: createOrUpdate looks the function up first; it then issues a single
\* PATCH of functions/<name> when the response carries a name, a single create
\* with payload.name set to the function's path when the response is a 404
\* error, and throws without any mutating request for every other response.
C10_CreateOrUpdate ==
  (pattern = "functions" /\ cf.state # "idle") =>
    LET name == cf.functionsName
        mutating == SelectSeq(cf.requests, LAMBDA r : r.method # "GET")
    IN /\ Head(cf.requests) = Request("GET", functionUrl(name), <<>>)
       /\ Len(mutating) = Len(cf.requests) - 1
       /\ cf.state = "returned" => Len(mutating) = 1
       /\ cf.response.name =>
            mutating = <<Request("PATCH", functionUrl(name), cf.payloadName)>>
       /\ (~cf.response.name /\ cf.response.hasError /\ cf.response.code = 404) =>
            mutating = <<Request("POST", functionsUrl, functionUrl(name))>>
       /\ ~(cf.response.name \/ (cf.response.hasError /\ cf.response.code = 404)) =>
            /\ mutating = <<>>
            /\ cf.state = "threw"

C10_Witness ==
  /\ pattern = "functions" /\ cf.state = "returned"
  /\ cf.response.hasError /\ cf.response.code = 404
  /\ cf.payloadName # <<>>

====
